---- MODULE Spec2Model ----
(***************************************************************************)
(* Model of the Mi Robot Vacuum device class (lib/devices/vacuum.js):      *)
(* the property definition table, loadProperties (get_status and           *)
(* get_consumable merged into a semantic snapshot), propertyUpdated (the   *)
(* derived charging / cleaning / error / fan speed updates) and the        *)
(* commands, with activateCharging's pause, stop, wait, charge sequence.   *)
(*                                                                         *)
(* JavaScript values: numbers are integers, strings are strings, booleans  *)
(* are booleans, null and undefined are the records Null and Undefined,    *)
(* an object is a record, and an object used as a dictionary is a function *)
(* whose DOMAIN is the set of its own keys.                                *)
(***************************************************************************)
EXTENDS Integers, Sequences, FiniteSets, TLC

VARIABLES
  props,        \* this._properties: the snapshot, semantic name -> value
  charging,     \* the ChargingState capability's flag (updateCharging)
  cleaning,     \* the AutonomousCleaning capability's flag (updateCleaning)
  errorState,   \* the error capability's value (updateError)
  fanSpeedState,\* the AdjustableFanSpeed capability's value (updateFanSpeed)
  load,         \* the loadProperties call in flight, or the last one
                \* (requested: its argument, keys: the raw keys, result: <<
                \* the object it resolved with >>, failure: the call that
                \* made it reject)
  notes,        \* the propertyUpdated notifications of the last snapshot update
  lastRaw,      \* << the raw status, the raw consumables >> the last
                \* applied load was computed from
  lastState,    \* << the value of the most recent `state` notification >>
  now,          \* the time, in milliseconds
  run,          \* the command being carried out
  events,       \* what the command has done so far, with the times
  refreshes,    \* the refreshes the calls have scheduled
  invocations   \* how many commands have been called

pvars == <<props, charging, cleaning, errorState, fanSpeedState, load, notes,
           lastRaw, lastState>>
cvars == <<now, run, events, refreshes, invocations>>
vars == <<pvars, cvars>>

----------------------------------------------------------------------------
(* Bounds of the model.                                                    *)

\* raw state codes the device reports: 0..MaxStateCode
MaxStateCode == 18
\* how many of LoadStateCodeList's codes the device reports to a load
MaxLoadStates == 2
\* raw error codes the device reports: 0..MaxErrorCode
MaxErrorCode == 2
\* longest list of keys a loadProperties call is given
MaxKeys == 2
\* the time passes in steps of TickMs milliseconds, MaxTicks times
TickMs == 500
MaxTicks == 4
\* how many commands are called
MaxInvocations == 1

----------------------------------------------------------------------------
(* JavaScript's null and undefined.                                        *)

Null == [null |-> TRUE]
Undefined == [undefined |-> TRUE]

----------------------------------------------------------------------------
(* The property definition table of the constructor.                       *)

\* ErrorMapper with error code 1 mapped to null as well
ErrorMapperOneSuppressed(e) ==
  IF e = 0 \/ e = 1 THEN Null
  ELSE [code |-> [num |-> e], message |-> "Unknown error " \o ToString(e)]

\* mapper of error_code
ErrorMapper(e) ==
  IF e = 0 THEN Null
  ELSE [code |-> [num |-> e], message |-> "Unknown error " \o ToString(e)]

\* StateMapper with no case for 22
StateMapperNoDustCollection(s) ==
  CASE s = 1 -> "initiating"
    [] s = 2 -> "charger-offline"
    [] s = 3 -> "waiting"
    [] s = 5 -> "cleaning"
    [] s = 6 -> "returning"
    [] s = 8 -> "charging"
    [] s = 9 -> "charging-error"
    [] s = 10 -> "paused"
    [] s = 11 -> "spot-cleaning"
    [] s = 12 -> "error"
    [] s = 13 -> "shutting-down"
    [] s = 14 -> "updating"
    [] s = 15 -> "docking"
    [] s = 16 -> "going-to-location"
    [] s = 17 -> "zone-cleaning"
    [] s = 18 -> "room-cleaning"
    [] s = 100 -> "full"
    [] OTHER -> "unknown-" \o ToString(s)

\* mapper of state
StateMapper(s) ==
  CASE s = 1 -> "initiating"
    [] s = 2 -> "charger-offline"
    [] s = 3 -> "waiting"
    [] s = 5 -> "cleaning"
    [] s = 6 -> "returning"
    [] s = 8 -> "charging"
    [] s = 9 -> "charging-error"
    [] s = 10 -> "paused"
    [] s = 11 -> "spot-cleaning"
    [] s = 12 -> "error"
    [] s = 13 -> "shutting-down"
    [] s = 14 -> "updating"
    [] s = 15 -> "docking"
    [] s = 16 -> "going-to-location"
    [] s = 17 -> "zone-cleaning"
    [] s = 18 -> "room-cleaning"
    [] s = 22 -> "dust-collection"
    [] s = 100 -> "full"
    [] OTHER -> "unknown-" \o ToString(s)

\* the raw keys the constructor defines, in the order it defines them
DefinedRawKeys ==
  << "error_code", "state", "battery", "clean_time", "clean_area",
     "fan_power", "in_cleaning", "main_brush_work_time",
     "side_brush_work_time", "filter_work_time", "sensor_dirty_time",
     "water_box_mode", "auto_dust_collection", "dust_collection_status" >>

IsDefined(raw) == \E i \in DOMAIN DefinedRawKeys : DefinedRawKeys[i] = raw

\* the semantic name each definition gives its raw key
SemanticName(raw) ==
  CASE raw = "error_code" -> "error"
    [] raw = "battery" -> "batteryLevel"
    [] raw = "clean_time" -> "cleanTime"
    [] raw = "clean_area" -> "cleanArea"
    [] raw = "fan_power" -> "fanSpeed"
    [] raw = "main_brush_work_time" -> "mainBrushWorkTime"
    [] raw = "side_brush_work_time" -> "sideBrushWorkTime"
    [] raw = "filter_work_time" -> "filterWorkTime"
    [] raw = "sensor_dirty_time" -> "sensorDirtyTime"
    [] raw = "water_box_mode" -> "waterBoxMode"
    [] raw = "auto_dust_collection" -> "autoDustCollection"
    [] raw = "dust_collection_status" -> "dustCollectionStatus"
    [] OTHER -> raw

\* the mapper each definition gives its raw key (identity when it gives none)
Mapper(raw, v) ==
  CASE raw = "error_code" -> ErrorMapper(v)
    [] raw = "state" -> StateMapper(v)
    [] raw = "clean_area" -> [num |-> v, den |-> 1000000]
    [] OTHER -> v

\* this._reversePropertyDefinitions[key] || key
ReverseLookup(key) ==
  IF \E i \in DOMAIN DefinedRawKeys : SemanticName(DefinedRawKeys[i]) = key
  THEN CHOOSE raw \in {DefinedRawKeys[i] : i \in DOMAIN DefinedRawKeys} :
         SemanticName(raw) = key
  ELSE key

\* this._pushProperty(mapped, prop, value): mapped is an object, modelled as
\* the sequence of its <<name, value>> entries in insertion order
PushProperty(mapped, prop, value) ==
  LET name == IF IsDefined(prop) THEN SemanticName(prop) ELSE prop
      val  == IF IsDefined(prop) THEN Mapper(prop, value) ELSE value
  IN IF \E i \in DOMAIN mapped : mapped[i][1] = name
     THEN [i \in DOMAIN mapped |->
             IF mapped[i][1] = name THEN <<name, val>> ELSE mapped[i]]
     ELSE Append(mapped, <<name, val>>)

----------------------------------------------------------------------------
(* propertyUpdated: the derived updates of a property change.              *)

Call(hook, arg) == [hook |-> hook, arg |-> arg]

\* ChargingOf with charging-error counted as charging
ChargingOfAnyCharging(value) == value \in {"charging", "charging-error"}

\* ChargingOf with every state counted as charging
ChargingOfAlways(value) == value = value

\* the argument of updateCharging
ChargingOf(value) == value = "charging"

\* CleaningLabels with the room-cleaning label missing
CleaningLabelsNoRoom == {"cleaning", "spot-cleaning", "zone-cleaning"}

\* the case labels of the switch whose branch calls updateCleaning(true)
CleaningLabels == {"cleaning", "spot-cleaning", "zone-cleaning", "room-cleaning"}

\* the error objects of the charging-error and charger-offline cases
ChargingError ==
  [code |-> [str |-> "charging-error"], message |-> "Error during charging"]
ChargerOffline ==
  [code |-> [str |-> "charger-offline"], message |-> "Charger is offline"]

\* StateSwitch with no updateCleaning(false) for states without a case
StateSwitchNoDefault(value, errorProp) ==
  CASE value \in CleaningLabels -> << Call("updateCleaning", TRUE) >>
    [] value = "error" -> << Call("updateError", errorProp) >>
    [] value = "charging-error" -> << Call("updateError", ChargingError) >>
    [] value = "charger-offline" -> << Call("updateError", ChargerOffline) >>
    [] OTHER -> << >>

\* StateSwitch with the paused case missing, so that paused is a default state
StateSwitchNoPaused(value, errorProp) ==
  CASE value \in CleaningLabels -> << Call("updateCleaning", TRUE) >>
    [] value = "error" -> << Call("updateError", errorProp) >>
    [] value = "charging-error" -> << Call("updateError", ChargingError) >>
    [] value = "charger-offline" -> << Call("updateError", ChargerOffline) >>
    [] OTHER -> << Call("updateCleaning", FALSE) >>

\* StateSwitch with the charger-offline case missing
StateSwitchNoOffline(value, errorProp) ==
  CASE value \in CleaningLabels -> << Call("updateCleaning", TRUE) >>
    [] value = "paused" -> << >>
    [] value = "error" -> << Call("updateError", errorProp) >>
    [] value = "charging-error" -> << Call("updateError", ChargingError) >>
    [] OTHER -> << Call("updateCleaning", FALSE) >>

\* the switch on the new state value; errorProp is this.property("error")
StateSwitch(value, errorProp) ==
  CASE value \in CleaningLabels -> << Call("updateCleaning", TRUE) >>
    [] value = "paused" -> << >>
    [] value = "error" -> << Call("updateError", errorProp) >>
    [] value = "charging-error" -> << Call("updateError", ChargingError) >>
    [] value = "charger-offline" -> << Call("updateError", ChargerOffline) >>
    [] OTHER -> << Call("updateCleaning", FALSE) >>

\* the derived updates propertyUpdated makes, in the order it makes them
DerivedUpdates(key, value, errorProp) ==
  IF key = "state"
  THEN << Call("updateCharging", ChargingOf(value)) >> \o StateSwitch(value, errorProp)
  ELSE IF key = "fanSpeed" THEN << Call("updateFanSpeed", value) >>
  ELSE << >>

\* super.propertyUpdated(key, value, oldValue)
SuperPropertyUpdated(key, value, oldValue) ==
  [hook |-> "propertyUpdated", key |-> key, value |-> value, oldValue |-> oldValue]

\* HookCalls with super.propertyUpdated called before the derived updates
HookCallsSuperFirst(key, value, oldValue, errorProp) ==
  << SuperPropertyUpdated(key, value, oldValue) >> \o
    DerivedUpdates(key, value, errorProp)

\* every call propertyUpdated makes, in order
HookCalls(key, value, oldValue, errorProp) ==
  DerivedUpdates(key, value, errorProp) \o
    << SuperPropertyUpdated(key, value, oldValue) >>

\* the capability state: the values the update hooks keep
Cap(ch, cl, er, fs) == [charging |-> ch, cleaning |-> cl, error |-> er, fanSpeed |-> fs]

\* the effect of one hook call on the capability state
ApplyCall(cap, c) ==
  CASE c.hook = "updateCharging" -> [cap EXCEPT !.charging = c.arg]
    [] c.hook = "updateCleaning" -> [cap EXCEPT !.cleaning = c.arg]
    [] c.hook = "updateError" -> [cap EXCEPT !.error = c.arg]
    [] c.hook = "updateFanSpeed" -> [cap EXCEPT !.fanSpeed = c.arg]
    [] OTHER -> cap

RECURSIVE ApplyCalls(_, _)
ApplyCalls(cap, calls) ==
  IF calls = << >> THEN cap
  ELSE ApplyCalls(ApplyCall(cap, Head(calls)), Tail(calls))

\* this.property(key) on the snapshot p
Property(p, key) == IF key \in DOMAIN p THEN p[key] ELSE Undefined

\* propertyUpdated(key, value, oldValue) with the snapshot p and the
\* capability state cap: the notification's record
PropertyUpdated(p, cap, key, value, oldValue) ==
  LET calls == HookCalls(key, value, oldValue, Property(p, "error"))
  IN [key |-> key, value |-> value, oldValue |-> oldValue, calls |-> calls,
      before |-> cap, after |-> ApplyCalls(cap, calls)]

----------------------------------------------------------------------------
(* The snapshot: setProperty and the application of a loaded snapshot.     *)

\* setProperty(key, value) on st = [props, cap, notes]: the value is stored
\* and propertyUpdated called when it differs from the stored one
SetProperty(st, key, value) ==
  IF key \in DOMAIN st.props /\ st.props[key] = value
  THEN st
  ELSE LET old == Property(st.props, key)
           p2  == [k \in DOMAIN st.props \cup {key} |->
                     IF k = key THEN value ELSE st.props[k]]
           n   == PropertyUpdated(p2, st.cap, key, value, old)
       IN [props |-> p2, cap |-> n.after, notes |-> Append(st.notes, n)]

\* Object.keys(values).forEach(key => this.setProperty(key, values[key]))
RECURSIVE SetAll(_, _)
SetAll(st, mapped) ==
  IF mapped = << >> THEN st
  ELSE SetAll(SetProperty(st, Head(mapped)[1], Head(mapped)[2]), Tail(mapped))

\* the most recent state notification among ns, or prev when there is none
LastStateOf(ns, prev) ==
  LET idx == {i \in DOMAIN ns : ns[i].key = "state"}
  IN IF idx = {} THEN prev
     ELSE << ns[CHOOSE i \in idx : \A j \in idx : j <= i].value >>

\* the device instance after the entries of mapped have been set in order
Applied(mapped) ==
  SetAll([props |-> props,
          cap |-> Cap(charging, cleaning, errorState, fanSpeedState),
          notes |-> << >>], mapped)

Apply(mapped) ==
  \E st \in {Applied(mapped)} :
     /\ props' = st.props
     /\ charging' = st.cap.charging
     /\ cleaning' = st.cap.cleaning
     /\ errorState' = st.cap.error
     /\ fanSpeedState' = st.cap.fanSpeed
     /\ notes' = st.notes
     /\ lastState' = LastStateOf(st.notes, lastState)

----------------------------------------------------------------------------
(* What the device answers.                                                *)

FanPowers == {38, 60}

\* get_consumable's answer
Consumables ==
  [main_brush_work_time |-> 100, side_brush_work_time |-> 200,
   filter_work_time |-> 300, sensor_dirty_time |-> 400]

\* a get_consumable answer that also carries a key of the status
ConsumablesWithBattery ==
  [main_brush_work_time |-> 100, side_brush_work_time |-> 200,
   filter_work_time |-> 300, sensor_dirty_time |-> 400, battery |-> 7]
ConsumableAnswers == {Consumables, ConsumablesWithBattery}

\* the values the device reports for a raw key
RawValues(raw) ==
  CASE raw = "state" -> (0 .. MaxStateCode) \cup {22, 100}
    [] raw = "error_code" -> 0 .. MaxErrorCode
    [] raw = "fan_power" -> FanPowers
    [] raw = "battery" -> {80}
    [] OTHER -> {Consumables[raw]}

\* the state codes the device answers a load with, and its answers
LoadStateCodeList == << 12, 8, 5, 10, 9, 2, 3, 0 >>
LoadStateCodes ==
  {LoadStateCodeList[i] : i \in 1 .. MaxLoadStates} \cap RawValues("state")
LoadStatuses ==
  [state : LoadStateCodes, error_code : RawValues("error_code"),
   battery : RawValues("battery"), fan_power : {38}]

\* the keys a caller asks a load for
LoadKeys == {"state", "error", "mainBrushWorkTime", "battery"}
RECURSIVE SeqsUpTo(_, _)
SeqsUpTo(S, n) ==
  IF n = 0 THEN {<< >>}
  ELSE LET shorter == SeqsUpTo(S, n - 1)
       IN shorter \cup {Append(q, x) : q \in shorter, x \in S}
KeyLists == SeqsUpTo(LoadKeys, MaxKeys)

----------------------------------------------------------------------------
(* The commands.                                                           *)

\* the commands that are one remote call followed by checkResult
SimpleCommands ==
  {"cleanRooms", "resumeCleanRooms", "cleanZones", "activateCleaning",
   "pause", "deactivateCleaning", "activateSpotClean", "startDustCollection",
   "stopDustCollection", "changeFanSpeed", "setWaterBoxMode", "sendToLocation"}

\* the remote method a command calls ("charge" is activateCharging's last call)
MethodOf(cmd) ==
  CASE cmd = "cleanRooms" -> "app_segment_clean"
    [] cmd = "resumeCleanRooms" -> "resume_segment_clean"
    [] cmd = "cleanZones" -> "app_zoned_clean"
    [] cmd = "activateCleaning" -> "app_start"
    [] cmd = "pause" -> "app_pause"
    [] cmd = "deactivateCleaning" -> "app_stop"
    [] cmd = "charge" -> "app_charge"
    [] cmd = "activateSpotClean" -> "app_spot"
    [] cmd = "startDustCollection" -> "app_start_collect_dust"
    [] cmd = "stopDustCollection" -> "app_stop_collect_dust"
    [] cmd = "changeFanSpeed" -> "set_custom_mode"
    [] cmd = "setWaterBoxMode" -> "set_water_box_custom_mode"
    [] cmd = "sendToLocation" -> "app_goto_target"

\* the refresh option a command gives its call
RefreshOf(cmd) ==
  CASE cmd = "changeFanSpeed" -> << "fanSpeed" >>
    [] cmd = "setWaterBoxMode" -> << "waterBoxMode" >>
    [] OTHER -> << "state" >>

\* RefreshDelayOf with no refreshDelay given by cleanZones
RefreshDelayOfZonesNone(cmd) ==
  CASE cmd = "cleanRooms" -> << 1000 >>
    [] cmd = "resumeCleanRooms" -> << 1000 >>
    [] cmd = "cleanZones" -> << >>
    [] cmd = "activateCleaning" -> << 1000 >>
    [] cmd = "pause" -> << 1000 >>
    [] cmd = "deactivateCleaning" -> << 1000 >>
    [] cmd = "charge" -> << 1000 >>
    [] cmd = "activateSpotClean" -> << >>
    [] cmd = "startDustCollection" -> << 1000 >>
    [] cmd = "stopDustCollection" -> << 1000 >>
    [] cmd = "changeFanSpeed" -> << >>
    [] cmd = "setWaterBoxMode" -> << >>
    [] cmd = "sendToLocation" -> << 1000 >>

\* the refreshDelay option a command gives its call: << ms >>, or << >> when
\* it gives none
RefreshDelayOf(cmd) ==
  CASE cmd = "cleanRooms" -> << 1000 >>
    [] cmd = "resumeCleanRooms" -> << 1000 >>
    [] cmd = "cleanZones" -> << 1000 >>
    [] cmd = "activateCleaning" -> << 1000 >>
    [] cmd = "pause" -> << 1000 >>
    [] cmd = "deactivateCleaning" -> << 1000 >>
    [] cmd = "charge" -> << 1000 >>
    [] cmd = "activateSpotClean" -> << >>
    [] cmd = "startDustCollection" -> << 1000 >>
    [] cmd = "stopDustCollection" -> << 1000 >>
    [] cmd = "changeFanSpeed" -> << >>
    [] cmd = "setWaterBoxMode" -> << >>
    [] cmd = "sendToLocation" -> << 1000 >>

\* ChargeWait with no delay
ChargeWaitNone == 1000 - 1000

\* the delay of activateCharging's setTimeout
ChargeWait == 1000

\* checkResult(res): whether it returns (TRUE) or throws (FALSE)
CheckResult(res) == res = "ok"

\* the results a device gives a call
Results == {"ok", "error"}

\* what a command's promise is rejected with: the call that failed and
\* whether the transport failed or checkResult threw
NoFailure == [part |-> "none", kind |-> "none"]
FailureOf(part, res) ==
  [part |-> part, kind |-> IF res = "none" THEN "transport" ELSE "result"]

IdleRun ==
  [cmd |-> "none", part |-> "none", pc |-> "idle", res |-> "none",
   outcome |-> "none", failure |-> NoFailure]

\* this.call(method, args, options) is made
CallEvent(part) ==
  [ev |-> "call", method |-> MethodOf(part), refresh |-> RefreshOf(part),
   refreshDelay |-> RefreshDelayOf(part), at |-> now]

\* the call's promise is fulfilled by the transport with the device's result
AnswerEvent(part, res) == [ev |-> "answer", part |-> part, res |-> res, at |-> now]

\* a promise of the command's chain settles
SettleEvent(part, ok) == [ev |-> "settled", part |-> part, ok |-> ok, at |-> now]

\* setTimeout(resolve, ms) is called
WaitEvent(ms) == [ev |-> "wait", ms |-> ms, at |-> now]

\* the command is called: its first remote call is made
Invoke(cmd) ==
  /\ run.pc \in {"idle", "done"}
  /\ invocations < MaxInvocations
  /\ invocations' = invocations + 1
  /\ LET part == IF cmd = "activateCharging" THEN "pause" ELSE cmd
     IN /\ run' = [cmd |-> cmd, part |-> part, pc |-> "calling",
                   res |-> "none", outcome |-> "pending", failure |-> NoFailure]
        /\ events' = << CallEvent(part) >>
  /\ UNCHANGED <<now, refreshes, pvars>>

\* Continue with a command's call made once more when it has failed
ContinueWithRetry(ok) ==
  LET settled == Append(events, SettleEvent(run.part, ok))
      finish == /\ run' = [run EXCEPT !.pc = "done",
                             !.outcome = IF ok THEN "resolved" ELSE "rejected",
                             !.failure = IF ok THEN NoFailure
                                         ELSE FailureOf(run.part, run.res)]
                /\ events' = settled
      wait == /\ run' = [run EXCEPT !.pc = "waiting"]
              /\ events' = Append(settled, WaitEvent(ChargeWait))
      again == /\ run' = [run EXCEPT !.pc = "calling", !.res = "none"]
               /\ events' = Append(settled, CallEvent(run.part))
      stop == /\ run' = [run EXCEPT !.part = "deactivateCleaning",
                           !.pc = "calling", !.res = "none"]
              /\ events' = Append(settled, CallEvent("deactivateCleaning"))
  IN CASE run.cmd # "activateCharging" ->
            IF ok \/ Len(events) > 3 THEN finish ELSE again
       [] run.part = "pause" -> IF ok THEN wait ELSE stop
       [] run.part = "deactivateCleaning" -> IF ok THEN wait ELSE finish
       [] OTHER -> finish

\* Continue with the wait started after a failed app_stop too
ContinueAfterFailedStop(ok) ==
  LET settled == Append(events, SettleEvent(run.part, ok))
      finish == /\ run' = [run EXCEPT !.pc = "done",
                             !.outcome = IF ok THEN "resolved" ELSE "rejected",
                             !.failure = IF ok THEN NoFailure
                                         ELSE FailureOf(run.part, run.res)]
                /\ events' = settled
      wait == /\ run' = [run EXCEPT !.pc = "waiting"]
              /\ events' = Append(settled, WaitEvent(ChargeWait))
      stop == /\ run' = [run EXCEPT !.part = "deactivateCleaning",
                           !.pc = "calling", !.res = "none"]
              /\ events' = Append(settled, CallEvent("deactivateCleaning"))
  IN CASE run.cmd # "activateCharging" -> finish
       [] run.part = "pause" -> IF ok THEN wait ELSE stop
       [] run.part = "deactivateCleaning" -> wait
       [] OTHER -> finish

\* what the command does once the promise of its current part has settled,
\* fulfilled (ok) or rejected
Continue(ok) ==
  LET settled == Append(events, SettleEvent(run.part, ok))
      finish == /\ run' = [run EXCEPT !.pc = "done",
                             !.outcome = IF ok THEN "resolved" ELSE "rejected",
                             !.failure = IF ok THEN NoFailure
                                         ELSE FailureOf(run.part, run.res)]
                /\ events' = settled
      wait == /\ run' = [run EXCEPT !.pc = "waiting"]
              /\ events' = Append(settled, WaitEvent(ChargeWait))
      stop == /\ run' = [run EXCEPT !.part = "deactivateCleaning",
                           !.pc = "calling", !.res = "none"]
              /\ events' = Append(settled, CallEvent("deactivateCleaning"))
  IN CASE run.cmd # "activateCharging" -> finish
       [] run.part = "pause" -> IF ok THEN wait ELSE stop
       [] run.part = "deactivateCleaning" -> IF ok THEN wait ELSE finish
       [] OTHER -> finish

\* the device answers the call: the refresh the call was given is scheduled
RemoteAnswer(res) ==
  /\ run.pc = "calling"
  /\ run' = [run EXCEPT !.pc = "answered", !.res = res]
  /\ events' = Append(events, AnswerEvent(run.part, res))
  /\ refreshes' =
       Append(refreshes,
              [props |-> RefreshOf(run.part),
               due |-> now + (IF RefreshDelayOf(run.part) = << >> THEN 0
                              ELSE RefreshDelayOf(run.part)[1]),
               method |-> MethodOf(run.part), inv |-> invocations,
               fired |-> FALSE])
  /\ UNCHANGED <<now, invocations, pvars>>

\* the call fails in the transport: its promise is rejected
RemoteFail ==
  /\ run.pc = "calling"
  /\ Continue(FALSE)
  /\ UNCHANGED <<now, refreshes, invocations, pvars>>

\* the call's promise is fulfilled with the device's result, which
\* checkResult returns or throws on
CallResolve ==
  /\ run.pc = "answered"
  /\ Continue(CheckResult(run.res))
  /\ UNCHANGED <<now, refreshes, invocations, pvars>>

\* activateCharging's timeout fires: app_charge is called
WaitDone ==
  /\ run.pc = "waiting"
  /\ \E i \in DOMAIN events :
       /\ events[i].ev = "wait"
       /\ now >= events[i].at + events[i].ms
  /\ run' = [run EXCEPT !.part = "charge", !.pc = "calling", !.res = "none"]
  /\ events' = Append(events, CallEvent("charge"))
  /\ UNCHANGED <<now, refreshes, invocations, pvars>>

\* a refresh timer fires: the properties of the refresh are loaded
RefreshFire(i) ==
  /\ ~refreshes[i].fired
  /\ now >= refreshes[i].due
  /\ refreshes' = [refreshes EXCEPT ![i].fired = TRUE]
  /\ UNCHANGED <<now, run, events, invocations, pvars>>

\* the days getHistoryForDay is called with: a Date is [date |-> its
\* getTime()], a number is [num |-> it]
HistoryDays == {[date |-> 1000], [date |-> 1500], [date |-> 2000],
                [num |-> 1], [num |-> 2]}

\* the results the device gives get_clean_record: a list of
\* [start, end, duration, area, error, complete]
HistoryResults ==
  {<< >>, << <<1, 2, 60, 3000000, 0, 1>> >>,
   << <<1, 2, 60, 3000000, 0, 1>>, <<2, 3, 30, 1500000, 0, 0>> >>}

\* record: Math.floor(day.getTime() / 1000) of a Date, the day itself otherwise
RecordOf(day) == IF "date" \in DOMAIN day THEN day.date \div 1000 ELSE day.num

\* the object made of one entry of the result
HistoryEntry(data) ==
  [start |-> [date |-> data[1] * 1000], end |-> [date |-> data[2] * 1000],
   duration |-> data[3], area |-> [num |-> data[4], den |-> 1000000],
   complete |-> (data[6] = 1)]

\* what getHistoryForDay(day) resolves with when the device's result is result
HistoryResult(day, result) ==
  [day |-> day, history |-> [i \in DOMAIN result |-> HistoryEntry(result[i])]]

\* getHistoryForDay(day) is called: get_clean_record is called, with no options
GetHistoryForDay(day) ==
  /\ run.pc \in {"idle", "done"}
  /\ invocations < MaxInvocations
  /\ invocations' = invocations + 1
  /\ run' = [cmd |-> "getHistoryForDay", part |-> "getHistoryForDay",
             pc |-> "history", res |-> "none", outcome |-> "pending",
             failure |-> NoFailure]
  /\ events' = << [ev |-> "call", method |-> "get_clean_record",
                   args |-> << RecordOf(day) >>, day |-> day,
                   refresh |-> << >>, refreshDelay |-> << >>, at |-> now] >>
  /\ UNCHANGED <<now, refreshes, pvars>>

\* the device answers get_clean_record: the then-callback makes the object
HistoryAnswer(result) ==
  /\ run.pc = "history"
  /\ run' = [run EXCEPT !.pc = "done", !.res = "ok", !.outcome = "resolved"]
  /\ events' = Append(events, [ev |-> "returned", result |-> result,
                               value |-> HistoryResult(events[1].day, result),
                               at |-> now])
  /\ UNCHANGED <<now, refreshes, invocations, pvars>>

\* the get_clean_record call fails
HistoryFail ==
  /\ run.pc = "history"
  /\ run' = [run EXCEPT !.pc = "done", !.outcome = "rejected",
                        !.failure = FailureOf(run.part, run.res)]
  /\ events' = Append(events, SettleEvent(run.part, FALSE))
  /\ UNCHANGED <<now, refreshes, invocations, pvars>>

\* time passes
Tick ==
  /\ now < MaxTicks * TickMs
  /\ now' = now + TickMs
  /\ UNCHANGED <<run, events, refreshes, invocations, pvars>>

CommandNext ==
  \/ \E cmd \in SimpleCommands \cup {"activateCharging"} : Invoke(cmd)
  \/ \E res \in Results : RemoteAnswer(res)
  \/ RemoteFail
  \/ CallResolve
  \/ WaitDone
  \/ \E i \in DOMAIN refreshes : RefreshFire(i)
  \/ \E day \in HistoryDays : GetHistoryForDay(day)
  \/ \E result \in HistoryResults : HistoryAnswer(result)
  \/ HistoryFail
  \/ Tick

----------------------------------------------------------------------------
(* loadProperties.                                                         *)

\* props.map((key) => this._reversePropertyDefinitions[key] || key)
RawKeysOf(keys) == [i \in DOMAIN keys |-> ReverseLookup(keys[i])]

\* LoadCalls with the two calls made once for every requested key
RECURSIVE LoadCallsPerKey(_)
LoadCallsPerKey(keys) ==
  IF keys = << >> THEN << >>
  ELSE << "get_status", "get_consumable" >> \o LoadCallsPerKey(Tail(keys))

\* the remote calls one loadProperties call issues
LoadCalls(keys) == << "get_status", "get_consumable" >>

\* RawValue reading the consumables first
RawValueConsumablesFirst(status, consumables, prop) ==
  IF prop \in DOMAIN consumables THEN consumables[prop]
  ELSE IF prop \in DOMAIN status THEN status[prop]
  ELSE Undefined

\* status[prop], or consumables[prop] when that is undefined
RawValue(status, consumables, prop) ==
  IF prop \in DOMAIN status THEN status[prop]
  ELSE IF prop \in DOMAIN consumables THEN consumables[prop]
  ELSE Undefined

\* the then-callback of loadProperties: the mapped object
RECURSIVE MappedFrom(_, _, _, _)
MappedFrom(mapped, rawKeys, status, consumables) ==
  IF rawKeys = << >> THEN mapped
  ELSE MappedFrom(
         PushProperty(mapped, Head(rawKeys),
                      RawValue(status, consumables, Head(rawKeys))),
         Tail(rawKeys), status, consumables)

IdleLoad(calls, outcome) ==
  [pc |-> "idle", requested |-> << >>, keys |-> << >>, calls |-> calls,
   status |-> "pending", consumable |-> "pending", outcome |-> outcome,
   failure |-> "none", result |-> << >>]

Init ==
  /\ props = << >>
  /\ charging = FALSE
  /\ cleaning = FALSE
  /\ errorState = Undefined
  /\ fanSpeedState = Undefined
  /\ load = IdleLoad(<< >>, "none")
  /\ notes = << >>
  /\ lastRaw = << >>
  /\ lastState = << >>
  /\ now = 0
  /\ run = IdleRun
  /\ events = << >>
  /\ refreshes = << >>
  /\ invocations = 0

\* loadProperties(keys) is called: the keys are translated, both calls issued
LoadStart(keys) ==
  /\ load.pc = "idle"
  /\ load' = [pc |-> "fetching", requested |-> keys, keys |-> RawKeysOf(keys),
              calls |-> LoadCalls(keys), status |-> "pending",
              consumable |-> "pending", outcome |-> "pending",
              failure |-> "none", result |-> << >>]
  /\ lastRaw' = << >>
  /\ UNCHANGED <<props, charging, cleaning, errorState, fanSpeedState, notes,
                 lastState>>
  /\ UNCHANGED cvars

\* Promise.all resolves with [[status], [consumables]]: the snapshot is
\* computed and its entries are set one after the other. The notifications
\* are not recorded here.
LoadResolve(status, consumables) ==
  \E mapped \in {MappedFrom(<< >>, load.keys, status, consumables)} :
    \E st \in {Applied(mapped)} :
     /\ props' = st.props
     /\ charging' = st.cap.charging
     /\ cleaning' = st.cap.cleaning
     /\ errorState' = st.cap.error
     /\ fanSpeedState' = st.cap.fanSpeed
     /\ lastState' = LastStateOf(st.notes, lastState)
     /\ lastRaw' = << status, consumables >>
     /\ load' = [IdleLoad(load.calls, "resolved") EXCEPT !.result = << mapped >>]
     /\ UNCHANGED <<notes, cvars>>

\* LoadReject with a default value stored for every requested key
LoadRejectWithDefaults(failed) ==
  /\ load' = [IdleLoad(load.calls, "rejected") EXCEPT
                !.failure = failed, !.status = load.status,
                !.consumable = load.consumable]
  /\ props' = [k \in DOMAIN props \cup
                      {SemanticName(load.keys[i]) : i \in DOMAIN load.keys} |->
                IF k \in DOMAIN props THEN props[k] ELSE Null]
  /\ UNCHANGED <<charging, cleaning, errorState, fanSpeedState, notes,
                 lastRaw, lastState, cvars>>

\* Promise.all rejects as soon as one of its calls fails, with the failure of
\* that call: the then-callback does not run
LoadReject(failed) ==
  /\ load' = [IdleLoad(load.calls, "rejected") EXCEPT
                !.failure = failed, !.status = load.status,
                !.consumable = load.consumable]
  /\ UNCHANGED <<props, charging, cleaning, errorState, fanSpeedState, notes,
                 lastRaw, lastState, cvars>>

\* one call of the load has been answered and the other not yet
LoadWait(answered) ==
  /\ load' = [load EXCEPT ![answered] = "ok"]
  /\ UNCHANGED <<props, charging, cleaning, errorState, fanSpeedState, notes,
                 lastRaw, lastState, cvars>>

\* the device answers get_status. (What it answered is read when Promise.all
\* resolves, and is drawn there.)
StatusReply ==
  /\ load.pc = "fetching"
  /\ load.status = "pending"
  /\ IF load.consumable = "ok"
     THEN \E status \in LoadStatuses : \E consumables \in ConsumableAnswers :
            LoadResolve(status, consumables)
     ELSE LoadWait("status")

\* the get_status call fails
StatusFail ==
  /\ load.pc = "fetching"
  /\ load.status = "pending"
  /\ LoadReject("get_status")

\* the device answers get_consumable
ConsumableReply ==
  /\ load.pc = "fetching"
  /\ load.consumable = "pending"
  /\ IF load.status = "ok"
     THEN \E status \in LoadStatuses : \E consumables \in ConsumableAnswers :
            LoadResolve(status, consumables)
     ELSE LoadWait("consumable")

\* the get_consumable call fails
ConsumableFail ==
  /\ load.pc = "fetching"
  /\ load.consumable = "pending"
  /\ LoadReject("get_consumable")

LoadNext ==
  \/ \E keys \in KeyLists : LoadStart(keys)
  \/ StatusReply
  \/ StatusFail
  \/ ConsumableReply
  \/ ConsumableFail

\* the device instance with its loads
Spec == Init /\ [][LoadNext]_vars

----------------------------------------------------------------------------
(* The property changes one at a time.                                     *)

\* the properties a notification is about
NotifiedKeys == {"state", "error", "fanSpeed"}

\* the values a property takes: its mapper over what the device reports
ValuesOf(key) ==
  LET raw == ReverseLookup(key)
  IN {Mapper(raw, v) : v \in RawValues(raw)}

\* setProperty(key, value)
SetPropertyStep(key, value) ==
  /\ load.pc = "idle"
  /\ Apply(<< <<key, value>> >>)
  /\ UNCHANGED <<load, lastRaw, cvars>>

NotifyNext == \E key \in NotifiedKeys : \E value \in ValuesOf(key) : SetPropertyStep(key, value)

\* the device instance with its properties set one at a time
SpecProj == Init /\ [][NotifyNext]_vars

----------------------------------------------------------------------------
(* The definitions' mappers, one raw value at a time.                      *)

\* the raw keys whose values are mapped
MappedKeys == {"state", "error_code", "fan_power", "battery"}

\* this._pushProperty(mapped, raw, v) of the then-callback's loop, for the raw
\* value v of the key raw: lastRaw holds << the raw values pushed so far >> and
\* load.result << the object they were pushed to >>
PushStep(raw, v) ==
  /\ load.pc = "idle"
  /\ LET mapped == IF load.result = << >> THEN << >> ELSE load.result[1]
         status == IF lastRaw = << >> THEN << >> ELSE lastRaw[1]
     IN /\ load' = [load EXCEPT !.result = << PushProperty(mapped, raw, v) >>]
        /\ lastRaw' = << [k \in DOMAIN status \cup {raw} |->
                            IF k = raw THEN v ELSE status[k]] >>
  /\ UNCHANGED <<props, charging, cleaning, errorState, fanSpeedState, notes,
                 lastState, cvars>>

MapNext == \E raw \in MappedKeys : \E v \in RawValues(raw) : PushStep(raw, v)

\* the property definitions with the raw values pushed through them
SpecMap == Init /\ [][MapNext]_vars

\* the device instance with its commands
SpecCmd == Init /\ [][CommandNext]_vars

----------------------------------------------------------------------------
(* The claims.                                                             *)

\* the notifications of the last setProperty whose key is `state`
StateNotes == {i \in DOMAIN notes : notes[i].key = "state"}

\* the calls of hook h among calls
CallsOf(calls, h) == SelectSeq(calls, LAMBDA c : c.hook = h)

\* the events of kind ev
EventsOf(ev) == {i \in DOMAIN events : events[i].ev = ev}
CallsTo(method) == {i \in EventsOf("call") : events[i].method = method}
Settled(part, ok) ==
  {i \in EventsOf("settled") : events[i].part = part /\ events[i].ok = ok}

\* the remote calls of the load that are calls of method
CallsOfLoad(method) == SelectSeq(load.calls, LAMBDA m : m = method)

\* C1: in every run of activateCharging app_pause is the first call; app_stop
\* is called if and only if the pause attempt failed; and app_charge is
\* called only 1000 ms or more after a wait was started, which was started
\* only after the pause attempt (the stop attempt, when pause failed) settled.
C1_ChargingSequence ==
  run.cmd = "activateCharging" =>
    /\ events # << >> /\ 1 \in CallsTo("app_pause")
    /\ \A i \in EventsOf("call") : i > 1 => events[i].method # "app_pause"
    /\ (CallsTo("app_stop") # {}) <=> (Settled("pause", FALSE) # {})
    /\ \A k \in CallsTo("app_charge") :
         \E j \in EventsOf("wait") :
           /\ j < k
           /\ events[k].at >= events[j].at + 1000
           /\ \E i \in Settled("pause", TRUE) \cup Settled("deactivateCleaning", TRUE) :
                /\ i < j
                /\ events[i].at <= events[j].at
                /\ \A c \in CallsTo("app_pause") \cup CallsTo("app_stop") :
                     \E d \in EventsOf("settled") : c < d /\ d <= i

\* C1's case: pause failed, app_stop was called and succeeded, and app_charge
\* has been called
C1_Witness ==
  /\ run.cmd = "activateCharging"
  /\ Settled("pause", FALSE) # {}
  /\ CallsTo("app_stop") # {}
  /\ CallsTo("app_charge") # {}

\* C2: for a state notification whose new value is error, charging-error or
\* charger-offline, the charging flag and the cleaning flag are both false
\* once propertyUpdated has run
C2_ErrorStatesClearFlags ==
  \A i \in StateNotes :
    notes[i].value \in {"error", "charging-error", "charger-offline"} =>
      /\ notes[i].after.charging = FALSE
      /\ notes[i].after.cleaning = FALSE

C4_CleaningStates ==
  \A i \in StateNotes :
    notes[i].value \in {"cleaning", "spot-cleaning", "zone-cleaning", "room-cleaning"} =>
      /\ notes[i].after.charging = FALSE
      /\ notes[i].after.cleaning = TRUE
      /\ charging = FALSE
      /\ cleaning = TRUE

\* C4's case: the state changed from charging to room-cleaning
C4_Witness ==
  \E i \in StateNotes :
    /\ notes[i].value = "room-cleaning"
    /\ notes[i].before.charging = TRUE
    /\ notes[i].before.cleaning = FALSE

\* C5: once there has been a state notification, the charging flag is true
\* exactly when the most recent state value is charging; a notification for
\* another key leaves the charging flag as it was
C5_ChargingFromState ==
  /\ lastState # << >> => (charging = (lastState[1] = "charging"))
  /\ \A i \in DOMAIN notes \ StateNotes :
       notes[i].after.charging = notes[i].before.charging

\* C5's case: a notification for another key arrived while the state was
\* charging
C5_Witness ==
  /\ lastState = << "charging" >>
  /\ \E i \in DOMAIN notes : notes[i].key = "fanSpeed"
  /\ charging = TRUE

\* C6: when the state changes to paused, the charging flag becomes false, the
\* cleaning flag and the error value stay as they were, and neither
\* updateCleaning nor updateError is called
C6_PausedKeepsCleaning ==
  \A i \in StateNotes :
    notes[i].value = "paused" =>
      /\ notes[i].after.charging = FALSE
      /\ notes[i].after.cleaning = notes[i].before.cleaning
      /\ notes[i].after.error = notes[i].before.error
      /\ CallsOf(notes[i].calls, "updateCleaning") = << >>
      /\ CallsOf(notes[i].calls, "updateError") = << >>

\* C6's case: the state changed to paused while the cleaning flag was true
C6_Witness ==
  \E i \in StateNotes :
    /\ notes[i].value = "paused"
    /\ notes[i].before.cleaning = TRUE
    /\ cleaning = TRUE

\* C7: updateError is called exactly when the new state value is error (with
\* the current value of the error property), charging-error or
\* charger-offline (with their fixed objects); for any other state value and
\* for any other key it is not called
C7_UpdateErrorCalls ==
  \A i \in DOMAIN notes :
    LET errs == CallsOf(notes[i].calls, "updateError")
    IN IF notes[i].key # "state" THEN errs = << >>
       ELSE CASE notes[i].value = "error" ->
                   errs = << [hook |-> "updateError",
                              arg |-> IF "error" \in DOMAIN props
                                      THEN props["error"] ELSE Undefined] >>
              [] notes[i].value = "charging-error" ->
                   errs = << [hook |-> "updateError",
                              arg |-> [code |-> [str |-> "charging-error"],
                                       message |-> "Error during charging"]] >>
              [] notes[i].value = "charger-offline" ->
                   errs = << [hook |-> "updateError",
                              arg |-> [code |-> [str |-> "charger-offline"],
                                       message |-> "Charger is offline"]] >>
              [] OTHER -> errs = << >>

\* C7's case: the state changed to charger-offline and updateError was called
C7_Witness ==
  \E i \in StateNotes :
    /\ notes[i].value = "charger-offline"
    /\ CallsOf(notes[i].calls, "updateError") # << >>
    /\ errorState.message = "Charger is offline"

\* C8: when a load whose raw status has state 12 and a nonzero error_code N
\* changes the state to error, the error update carries ErrorMapper(N), the
\* error of that same raw status
C8_FreshError ==
  [][ ( /\ lastRaw = << >>
        /\ lastRaw' # << >>
        /\ lastRaw'[1].state = 12
        /\ lastRaw'[1].error_code # 0
        /\ "state" \in DOMAIN props'
        /\ props'["state"] = "error"
        /\ ~("state" \in DOMAIN props /\ props["state"] = "error") )
      => errorState' = [code |-> [num |-> lastRaw'[1].error_code],
                        message |-> "Unknown error " \o ToString(lastRaw'[1].error_code)]
    ]_vars

\* C9: for every notification the generic hook is called exactly once, with
\* the notification's key, new value and old value, and after all the derived
\* updates of the notification
C9_HookLast ==
  \A i \in DOMAIN notes :
    LET calls == notes[i].calls
        hooks == {j \in DOMAIN calls : calls[j].hook = "propertyUpdated"}
    IN /\ hooks = {Len(calls)}
       /\ calls[Len(calls)].key = notes[i].key
       /\ calls[Len(calls)].value = notes[i].value
       /\ calls[Len(calls)].oldValue = notes[i].oldValue

\* C9's case: a state notification of a charging device, with two derived
\* updates before the hook
C9_Witness ==
  \E i \in StateNotes :
    /\ notes[i].value = "zone-cleaning"
    /\ notes[i].before.charging
    /\ Len(notes[i].calls) = 3

\* C10: each loadProperties call makes exactly one get_status call and
\* exactly one get_consumable call, whatever keys it is given
C10_OneFetchEach ==
  load.outcome # "none" =>
    /\ Len(CallsOfLoad("get_status")) = 1
    /\ Len(CallsOfLoad("get_consumable")) = 1
    /\ Len(load.calls) = 2

\* C10's case: a load of consumable keys only is in flight
C10_Witness ==
  /\ load.pc = "fetching"
  /\ load.keys = << "main_brush_work_time", "main_brush_work_time" >>
  /\ Len(load.calls) = 2

\* C11: when the get_status call or the get_consumable call of a load fails,
\* the load is rejected with the failure of that call and resolves with no
\* object; the snapshot and the capability state stay as they were, with no
\* value from the call that succeeded and no default value
C11_FailedLoadNoSnapshot ==
  /\ [](load.outcome = "rejected" =>
          /\ load.result = << >>
          /\ load.failure \in {"get_status", "get_consumable"})
  /\ [][ (load.pc = "fetching" /\ load'.outcome = "rejected") =>
           /\ props' = props
           /\ charging' = charging /\ cleaning' = cleaning
           /\ errorState' = errorState /\ fanSpeedState' = fanSpeedState
           /\ load'.failure = "get_status" => load.status = "pending"
           /\ load'.failure = "get_consumable" => load.consumable = "pending"
       ]_vars

\* C11's case: get_status failed after get_consumable had been answered
C11_Witness ==
  /\ load.outcome = "rejected"
  /\ load.failure = "get_status"
  /\ load.consumable = "ok"

\* C12: the raw key of a requested key is the raw key of the definition with
\* that semantic name, or the requested key itself when there is none; the
\* object a load resolves with has, for every raw key, the mapped value of
\* the status when the status has the key, and of the consumables otherwise
C12_MergePrefersStatus ==
  /\ [](load.pc = "fetching" =>
          /\ Len(load.keys) = Len(load.requested)
          /\ \A i \in DOMAIN load.requested :
               load.keys[i] =
                 CASE load.requested[i] = "error" -> "error_code"
                   [] load.requested[i] = "mainBrushWorkTime" -> "main_brush_work_time"
                   [] OTHER -> load.requested[i])
  /\ [][ (load.pc = "fetching" /\ load'.outcome = "resolved") =>
           /\ Len(load'.result) = 1
           /\ \A i \in DOMAIN load.keys :
                LET raw == load.keys[i]
                    status == lastRaw'[1]
                    consumables == lastRaw'[2]
                    value == IF raw \in DOMAIN status THEN status[raw]
                             ELSE consumables[raw]
                IN \E j \in DOMAIN load'.result[1] :
                     /\ load'.result[1][j][1] = SemanticName(raw)
                     /\ load'.result[1][j][2] = Mapper(raw, value)
       ]_vars

\* C12's case: a load of the raw key battery and of a consumable was answered
\* with consumables that carry a battery value too
C12_Witness ==
  /\ load.outcome = "resolved"
  /\ lastRaw # << >>
  /\ "battery" \in DOMAIN lastRaw[2]
  /\ load.result = << << <<"batteryLevel", 80>>, <<"mainBrushWorkTime", 100>> >> >>

\* the value the object of the pushed raw values has under name
MappedValueOf(name) ==
  LET mapped == load.result[1]
  IN mapped[CHOOSE j \in DOMAIN mapped : mapped[j][1] = name][2]

\* C13: the mapped state of a raw state code is the label of the table for
\* the eighteen codes of the table, and "unknown-" followed by the code for
\* every other code
C13_StateTable ==
  (lastRaw # << >> /\ "state" \in DOMAIN lastRaw[1]) =>
    LET c == lastRaw[1]["state"]
        table == [code \in {1, 2, 3, 5, 6, 8, 9, 10, 11, 12, 13, 14, 15, 16,
                            17, 18, 22, 100} |->
                   CASE code = 1 -> "initiating" [] code = 2 -> "charger-offline"
                     [] code = 3 -> "waiting" [] code = 5 -> "cleaning"
                     [] code = 6 -> "returning" [] code = 8 -> "charging"
                     [] code = 9 -> "charging-error" [] code = 10 -> "paused"
                     [] code = 11 -> "spot-cleaning" [] code = 12 -> "error"
                     [] code = 13 -> "shutting-down" [] code = 14 -> "updating"
                     [] code = 15 -> "docking" [] code = 16 -> "going-to-location"
                     [] code = 17 -> "zone-cleaning" [] code = 18 -> "room-cleaning"
                     [] code = 22 -> "dust-collection" [] code = 100 -> "full"]
    IN /\ \E j \in DOMAIN load.result[1] : load.result[1][j][1] = "state"
       /\ MappedValueOf("state") =
            IF c \in DOMAIN table THEN table[c] ELSE "unknown-" \o ToString(c)

\* C13's case: code 22 has been mapped, to dust-collection
C13_Witness ==
  /\ lastRaw # << >>
  /\ "state" \in DOMAIN lastRaw[1]
  /\ lastRaw[1]["state"] = 22
  /\ load.result # << >>
  /\ MappedValueOf("state") = "dust-collection"

\* C14: the mapped error of raw error code 0 is null, and of every other raw
\* error code e the object with code e and message "Unknown error " followed
\* by e
C14_ErrorObject ==
  (lastRaw # << >> /\ "error_code" \in DOMAIN lastRaw[1]) =>
    LET e == lastRaw[1]["error_code"]
    IN /\ \E j \in DOMAIN load.result[1] : load.result[1][j][1] = "error"
       /\ e = 0 => MappedValueOf("error") = Null
       /\ e # 0 => MappedValueOf("error") =
                      [code |-> [num |-> e],
                       message |-> "Unknown error " \o ToString(e)]

\* C14's case: error code 1 has been mapped, to an object with that code
C14_Witness ==
  /\ lastRaw # << >>
  /\ "error_code" \in DOMAIN lastRaw[1]
  /\ lastRaw[1]["error_code"] = 1
  /\ load.result # << >>
  /\ MappedValueOf("error") # Null
  /\ MappedValueOf("error").code = [num |-> 1]

\* the refreshes scheduled by the calls of the command being carried out
RefreshesOfRun == {k \in DOMAIN refreshes : refreshes[k].inv = invocations}

\* the answers the transport has given the calls of part
AnswersOf(part) == {i \in EventsOf("answer") : events[i].part = part}

\* C15: a cleanZones call that has resolved has scheduled exactly one
\* refresh, of the list [state], due 1000 ms after its remote call was
\* answered; one whose remote call failed has scheduled none; a refresh fires
\* only once it is due, and a scheduled refresh is never removed or changed
\* except by firing
C15_ZoneRefresh ==
  /\ [](run.cmd = "cleanZones" =>
          /\ run.outcome = "resolved" =>
               /\ Cardinality(RefreshesOfRun) = 1
               /\ \A k \in RefreshesOfRun :
                    /\ refreshes[k].props = << "state" >>
                    /\ \E i \in AnswersOf("cleanZones") :
                         refreshes[k].due = events[i].at + 1000
          /\ (run.outcome = "rejected" /\ run.failure.kind = "transport") =>
               RefreshesOfRun = {}
          /\ \A k \in RefreshesOfRun :
               refreshes[k].fired => now >= refreshes[k].due)
  /\ [][ \A k \in DOMAIN refreshes :
           /\ k \in DOMAIN refreshes'
           /\ refreshes'[k].props = refreshes[k].props
           /\ refreshes'[k].due = refreshes[k].due
           /\ refreshes[k].fired => refreshes'[k].fired ]_vars

\* C15's case: cleanZones has resolved and its refresh has fired when due
C15_Witness ==
  /\ run.cmd = "cleanZones"
  /\ run.outcome = "resolved"
  /\ \E k \in RefreshesOfRun : refreshes[k].fired /\ refreshes[k].due = now

\* C16: a command that is one call followed by checkResult makes its call
\* exactly once, and is rejected, with the failure of that call, when the
\* call fails or the device's result is not a success; so is activateCharging
\* for its app_charge call
C16_FailureRaisedNoRetry ==
  /\ run.cmd \in SimpleCommands =>
       /\ Cardinality(EventsOf("call")) = 1
       /\ Cardinality(CallsTo(MethodOf(run.cmd))) = 1
       /\ run.pc = "done" =>
            IF \E i \in AnswersOf(run.cmd) : events[i].res = "ok"
            THEN run.outcome = "resolved"
            ELSE /\ run.outcome = "rejected"
                 /\ run.failure.part = run.cmd
                 /\ run.failure.kind =
                      IF AnswersOf(run.cmd) = {} THEN "transport" ELSE "result"
  /\ run.cmd = "activateCharging" =>
       /\ Cardinality(CallsTo("app_charge")) <= 1
       /\ (run.pc = "done" /\ CallsTo("app_charge") # {}) =>
            IF \E i \in AnswersOf("charge") : events[i].res = "ok"
            THEN run.outcome = "resolved"
            ELSE /\ run.outcome = "rejected"
                 /\ run.failure.part = "charge"

\* C16's case: the device answered sendToLocation's call with a result that
\* is not a success
C16_Witness ==
  /\ run.cmd = "sendToLocation"
  /\ run.pc = "done"
  /\ run.outcome = "rejected"
  /\ run.failure.kind = "result"

\* C17: getHistoryForDay called with the Date of a whole second calls
\* get_clean_record with the argument it is called with for the number of
\* that second, and resolves with the object it resolves with for that
\* number, given the same result of the device
C17_SameOutputForSameInstant ==
  \A i \in EventsOf("returned") :
    LET day == events[1].day
    IN ("date" \in DOMAIN day /\ day.date % 1000 = 0) =>
         LET seconds == [num |-> day.date \div 1000]
         IN /\ events[1].args = << RecordOf(seconds) >>
            /\ events[i].value = HistoryResult(seconds, events[i].result)

\* C18: every call that is given the refresh list [state] is given a
\* refreshDelay of 1000 ms or more
C18_StateRefreshDelay ==
  \A i \in EventsOf("call") :
    events[i].refresh = << "state" >> =>
      /\ events[i].refreshDelay # << >>
      /\ events[i].refreshDelay[1] >= 1000

\* C19: the charging flag and the cleaning flag are never both true, after
\* any notification
C19_NotBothFlags ==
  /\ ~(charging /\ cleaning)
  /\ \A i \in DOMAIN notes : ~(notes[i].after.charging /\ notes[i].after.cleaning)

\* C19's case: the state changed to charging while the cleaning flag was
\* true, after a fan speed had been set
C19_Witness ==
  /\ "fanSpeed" \in DOMAIN props
  /\ charging
  /\ \E i \in StateNotes : notes[i].before.cleaning /\ ~notes[i].before.charging

\* C20: when in activateCharging the pause attempt and then the app_stop
\* attempt have failed, activateCharging is rejected with the failure of
\* app_stop, no wait is started and app_charge is not called
C20_BothFailNoCharge ==
  (/\ run.cmd = "activateCharging"
   /\ Settled("pause", FALSE) # {}
   /\ Settled("deactivateCleaning", FALSE) # {}) =>
     /\ run.pc = "done"
     /\ run.outcome = "rejected"
     /\ run.failure.part = "deactivateCleaning"
     /\ EventsOf("wait") = {}
     /\ CallsTo("app_charge") = {}

\* C20's case: the pause attempt failed and the app_stop attempt failed, the
\* device answering it with a result that is not a success
C20_Witness ==
  /\ run.cmd = "activateCharging"
  /\ Settled("pause", FALSE) # {}
  /\ Settled("deactivateCleaning", FALSE) # {}
  /\ run.failure = [part |-> "deactivateCleaning", kind |-> "result"]

====
